---- MODULE Spec2Model ----
\* The To-Do Flask application of src/app.py as a state machine: the
\* process-wide MongoDB client, the document store behind it, the server's
\* wall clock, and the worker threads that run the three request handlers
\* statement by statement.
EXTENDS Integers, Sequences, FiniteSets, TLC

\* ---------------------------------------------------------------- bounds

\* MongoClient objects constructed over a run.
MaxHandles == 2
\* Documents the collection may hold.
MaxItems == 2
\* Largest reading of the wall clock.
MaxClock == 2
\* The worker threads of the server. The serial server runs every request on
\* worker 1; the threaded server runs requests on both, interleaved.
Threads == {1, 2}
SerialWorkers == {1}

\* ------------------------------------------------------ values and helpers

\* Python's None, for the global client and for absent form fields.
NoHandle == 0
NoneVal == "<None>"
\* A local that holds no datetime yet.
NoTime == -1

\* request.form.get('itemName'): absent, empty, or a text.
FormNames == {NoneVal, "", "Buy milk"}
\* request.form.get('itemDescription'): absent or a text.
FormDescriptions == {NoneVal, "2 litres"}

\* `not item_name`: None and the empty string are falsy (faulty variant: only None is).
FalsyNoneOnly(x) == x = NoneVal
Falsy(x) == x = NoneVal \/ x = ""

\* The fixed JSON object of GET /api.
ApiData ==
    [message |-> "API response from merged branches!",
     version |-> "1.1",
     source_branch |-> "initial_commit",
     status_new_branch |-> "updated",
     status_main_branch |-> "modified"]

NoResponse == [code |-> 0, body |-> [pending |-> TRUE]]
HomeResponse == [code |-> 200, body |-> [template |-> "index.html"]]
ApiResponse == [code |-> 200, body |-> ApiData]
NameRequiredResponse ==
    [code |-> 400, body |-> [status |-> "error", message |-> "Item Name is required"]]
\* The collection came back None.
ConnectFailedResponse ==
    [code |-> 500,
     body |-> [status |-> "error", message |-> "Failed to connect to database"]]
\* f"An error occurred during submission: {e}"
SubmissionErrorResponse(e) ==
    [code |-> 500,
     body |-> [status |-> "error",
               message |-> "An error occurred during submission: ",
               detail |-> e]]
\* An exception that leaves submit_todo_item: the framework answers with its
\* own 500 page, not with the handler's JSON.
UnhandledResponse(e) == [code |-> 500, body |-> [traceback |-> e]]

\* str(ObjectId): the fixed-width hexadecimal text of the identifier.
RECURSIVE HexDigits(_, _)
HexDigits(n, width) ==
    IF width = 0 THEN <<>>
    ELSE Append(HexDigits(n \div 16, width - 1), n % 16)
ObjectIdStr(oid) == HexDigits(oid, 24)

\* The identifier given to a new document: unique in the collection
\* (faulty variant: the same identifier every time).
NewObjectIdConstant(s) == 1
NewObjectId(s) == Len(s) + 1

\* The document built for insertion (faulty variants: description dropped,
\* timestamp left out).
TodoItemNoDescription(n, d, now) ==
    [itemName |-> n, itemDescription |-> NoneVal, timestamp |-> now]
TodoItemNoTimestamp(n, d, now) ==
    [itemName |-> n, itemDescription |-> d, timestamp |-> NoTime]
TodoItem(n, d, now) ==
    [itemName |-> n, itemDescription |-> d, timestamp |-> now]

SuccessResponse(oid) ==
    [code |-> 201,
     body |-> [status |-> "success",
               message |-> "To-Do item added successfully!",
               item_id |-> ObjectIdStr(oid)]]

\* What the except ConnectionFailure block leaves in the global client
\* (faulty variant: the reset is missing).
ClientAfterConnectionFailureKept(c) == c
ClientAfterConnectionFailure(c) == NoHandle

\* Outcomes of MongoClient(MONGO_URI): the constructor returns, raises
\* ConnectionFailure (only an unreachable server can cause that) or raises
\* another error (InvalidURI, or ConfigurationError: an unsupported option, a
\* mongodb+srv URI whose DNS lookup fails).
CreateOutcomes(up) ==
    IF up THEN {"ok", "Other"} ELSE {"ok", "ConnectionFailure", "Other"}
\* Outcomes of client.admin.command('ismaster'): an unreachable server is a
\* ConnectionFailure; a reachable one answers or refuses (OperationFailure).
PingOutcomes(up) ==
    IF up THEN {"ok", "OperationFailure"} ELSE {"ConnectionFailure"}
\* Outcomes of collection.insert_one(todo_item).
InsertOutcomes(up) ==
    IF up THEN {"ok", "OperationFailure"} ELSE {"ServerSelectionTimeoutError"}

\* ------------------------------------------------------------------ state

VARIABLES
    client,          \* the global client: NoHandle or a MongoClient
    handlesCreated,  \* MongoClient objects constructed so far
    verified,        \* the MongoClient objects whose ismaster ping succeeded
    store,           \* the collection, in insertion order
    storeUp,         \* whether the MongoDB server is reachable
    clock,           \* the server's wall clock, read by datetime.now()
    pc,              \* per thread: the statement it is at
    item_name,       \* per thread: itemName of the form, local item_name
    item_description,\* per thread: itemDescription of the form, the local
    collection,      \* per thread: the client behind local collection
    timestamp,       \* per thread: the "timestamp" of local todo_item
    response,        \* per thread: the response of its last request
    overlapped,      \* history: a request started while another was running
    foreignError,    \* history: create or ping raised a non-ConnectionFailure
    clockSetBack     \* history: the wall clock was moved backwards

shared == <<client, handlesCreated, verified, store, storeUp, clock>>
locals == <<pc, item_name, item_description, collection, timestamp, response>>
history == <<overlapped, foreignError, clockSetBack>>
vars == <<shared, locals, history>>

Idle(t) == pc[t] \in {"idle", "done"}
Running(t) == ~Idle(t)

Init ==
    /\ client = NoHandle
    /\ handlesCreated = 0
    /\ verified = {}
    /\ store = <<>>
    /\ storeUp \in BOOLEAN
    /\ clock = 0
    /\ pc = [t \in Threads |-> "idle"]
    /\ item_name = [t \in Threads |-> NoneVal]
    /\ item_description = [t \in Threads |-> NoneVal]
    /\ collection = [t \in Threads |-> NoHandle]
    /\ timestamp = [t \in Threads |-> NoTime]
    /\ response = [t \in Threads |-> NoResponse]
    /\ overlapped = FALSE
    /\ foreignError = FALSE
    /\ clockSetBack = FALSE

\* The form thread t received: kept until its next request.
Receive(t, n, d) ==
    /\ item_name' = [item_name EXCEPT ![t] = n]
    /\ item_description' = [item_description EXCEPT ![t] = d]

\* The request of thread t ends with response r; its locals die.
Finish(t, r) ==
    /\ pc' = [pc EXCEPT ![t] = "done"]
    /\ response' = [response EXCEPT ![t] = r]
    /\ collection' = [collection EXCEPT ![t] = NoHandle]
    /\ timestamp' = [timestamp EXCEPT ![t] = NoTime]

Goto(t, label) == pc' = [pc EXCEPT ![t] = label]

\* ---------------------------------------------------------------- handlers

\* GET /
Home(t) ==
    /\ Idle(t)
    /\ Receive(t, NoneVal, NoneVal)
    /\ Finish(t, HomeResponse)
    /\ UNCHANGED <<shared, history>>

\* GET /api
ApiRoute(t) ==
    /\ Idle(t)
    /\ Receive(t, NoneVal, NoneVal)
    /\ Finish(t, ApiResponse)
    /\ UNCHANGED <<shared, history>>

\* POST /submittodoitem, up to the validation of itemName.
SubmitTodoItem(t) ==
    /\ Idle(t)
    /\ \E n \in FormNames, d \in FormDescriptions :
        /\ Receive(t, n, d)
        /\ IF Falsy(n)
           THEN Finish(t, NameRequiredResponse)
           ELSE /\ Goto(t, "check")
                /\ response' = [response EXCEPT ![t] = NoResponse]
                /\ UNCHANGED <<collection, timestamp>>
    /\ overlapped' = (overlapped \/ \E u \in Threads \ {t} : Running(u))
    /\ UNCHANGED <<shared, foreignError, clockSetBack>>

\* get_mongo_collection: `if client is None` (faulty variant: always reconnect).
CheckClientAlwaysConnect(t) ==
    /\ pc[t] = "check"
    /\ Goto(t, "create")
    /\ UNCHANGED <<shared, history, item_name, item_description, collection,
                   timestamp, response>>
CheckClient(t) ==
    /\ pc[t] = "check"
    /\ Goto(t, IF client = NoHandle THEN "create" ELSE "getdb")
    /\ UNCHANGED <<shared, history, item_name, item_description, collection,
                   timestamp, response>>

\* get_mongo_collection: `client = MongoClient(MONGO_URI)` and, when it
\* raises, the except block or the escape from both functions.
CreateClient(t) ==
    /\ pc[t] = "create"
    /\ \E outcome \in CreateOutcomes(storeUp) :
        CASE outcome = "ok" ->
                /\ handlesCreated < MaxHandles
                /\ handlesCreated' = handlesCreated + 1
                /\ client' = handlesCreated + 1
                /\ Goto(t, "ping")
                /\ UNCHANGED <<item_name, item_description, collection,
                               timestamp, response, foreignError>>
          [] outcome = "ConnectionFailure" ->
                /\ client' = ClientAfterConnectionFailure(client)
                /\ Finish(t, ConnectFailedResponse)
                /\ UNCHANGED <<handlesCreated, foreignError, item_name,
                               item_description>>
          [] outcome = "Other" ->
                /\ Finish(t, UnhandledResponse("ConfigurationError"))
                /\ foreignError' = TRUE
                /\ UNCHANGED <<client, handlesCreated, item_name,
                               item_description>>
    /\ UNCHANGED <<verified, store, storeUp, clock, overlapped, clockSetBack>>

\* get_mongo_collection: `client.admin.command('ismaster')` on whatever the
\* global holds now, and, when it raises, the except block or the escape.
PingClient(t) ==
    /\ pc[t] = "ping"
    /\ IF client = NoHandle
       THEN \* None has no attribute 'admin'
            /\ Finish(t, UnhandledResponse("AttributeError"))
            /\ UNCHANGED <<client, verified, foreignError, item_name,
                           item_description>>
       ELSE \E outcome \in PingOutcomes(storeUp) :
            CASE outcome = "ok" ->
                    /\ verified' = verified \cup {client}
                    /\ Goto(t, "getdb")
                    /\ UNCHANGED <<client, item_name, item_description,
                                   collection, timestamp, response,
                                   foreignError>>
              [] outcome = "ConnectionFailure" ->
                    /\ client' = ClientAfterConnectionFailure(client)
                    /\ Finish(t, ConnectFailedResponse)
                    /\ UNCHANGED <<verified, foreignError, item_name,
                                   item_description>>
              [] outcome = "OperationFailure" ->
                    /\ Finish(t, UnhandledResponse(outcome))
                    /\ foreignError' = TRUE
                    /\ UNCHANGED <<client, verified, item_name,
                                   item_description>>
    /\ UNCHANGED <<handlesCreated, store, storeUp, clock, overlapped,
                   clockSetBack>>

\* get_mongo_collection: `db = client[DB_NAME]; return db[COLLECTION_NAME]`
\* on whatever the global holds now, then `if collection is None`.
GetCollection(t) ==
    /\ pc[t] = "getdb"
    /\ IF client = NoHandle
       THEN \* None is not subscriptable
            Finish(t, UnhandledResponse("TypeError"))
       ELSE /\ Goto(t, "build")
            /\ collection' = [collection EXCEPT ![t] = client]
            /\ UNCHANGED <<timestamp, response>>
    /\ UNCHANGED <<shared, history, item_name, item_description>>

\* submit_todo_item: the todo_item dictionary, with datetime.datetime.now().
BuildItem(t) ==
    /\ pc[t] = "build"
    /\ Goto(t, "insert")
    /\ timestamp' = [timestamp EXCEPT ![t] = clock]
    /\ UNCHANGED <<shared, history, item_name, item_description, collection,
                   response>>

\* submit_todo_item: `collection.insert_one(todo_item)` and the response,
\* or the except Exception block.
InsertOne(t) ==
    /\ pc[t] = "insert"
    /\ \E outcome \in InsertOutcomes(storeUp) :
        IF outcome = "ok"
        THEN /\ Len(store) < MaxItems
             /\ store' = Append(store,
                    [id |-> NewObjectId(store),
                     doc |-> TodoItem(item_name[t], item_description[t],
                                      timestamp[t])])
             /\ Finish(t, SuccessResponse(NewObjectId(store)))
        ELSE /\ Finish(t, SubmissionErrorResponse(outcome))
             /\ UNCHANGED store
    /\ UNCHANGED <<client, handlesCreated, verified, storeUp, clock, history,
                   item_name, item_description>>

\* -------------------------------------------------------------- environment

\* The MongoDB server becomes unreachable, or reachable again.
StoreFlip ==
    /\ storeUp' = ~storeUp
    /\ UNCHANGED <<client, handlesCreated, verified, store, clock, locals,
                   history>>

\* Time passes.
ClockTick ==
    /\ clock < MaxClock
    /\ clock' = clock + 1
    /\ UNCHANGED <<client, handlesCreated, verified, store, storeUp, locals,
                   history>>

\* The local wall clock is moved back (end of daylight saving time, an NTP
\* or manual adjustment): datetime.now() is naive local time.
ClockBack ==
    /\ clock > 0
    /\ clock' = clock - 1
    /\ clockSetBack' = TRUE
    /\ UNCHANGED <<client, handlesCreated, verified, store, storeUp, locals,
                   overlapped, foreignError>>

Environment ==
    \/ StoreFlip
    \/ ClockTick
    \/ ClockBack

\* The part of the environment the client's life cycle depends on.
Reachability == StoreFlip

Handlers(t) ==
    \/ Home(t)
    \/ ApiRoute(t)
    \/ SubmitTodoItem(t)
    \/ CheckClient(t)
    \/ CreateClient(t)
    \/ PingClient(t)
    \/ GetCollection(t)
    \/ BuildItem(t)
    \/ InsertOne(t)

\* Requests handled one at a time.
Next ==
    \/ \E t \in SerialWorkers : Handlers(t)
    \/ Environment

Spec == Init /\ [][Next]_vars

\* Requests handled by concurrent workers, interleaved statement by statement.
NextThreaded ==
    \/ \E t \in Threads : Handlers(t)
    \/ Reachability

SpecThreaded == Init /\ [][NextThreaded]_vars

\* ------------------------------------------------------------------ claims

\* Thread t took the step.
Stepped(t) ==
    <<pc[t], item_name[t], item_description[t], collection[t], timestamp[t],
      response[t]>> #
    <<pc'[t], item_name'[t], item_description'[t], collection'[t],
      timestamp'[t], response'[t]>>

GetResponses == {HomeResponse, ApiResponse}
\* An itemName that is absent or the empty string.
EmptyName(x) == x \in {NoneVal, ""}
\* The error responses the specification words.
Expect400 ==
    [code |-> 400,
     body |-> [status |-> "error", message |-> "Item Name is required"]]
Expect500Connect ==
    [code |-> 500,
     body |-> [status |-> "error", message |-> "Failed to connect to database"]]
Last(s) == s[Len(s)]

\* C1: a POST /submittodoitem with a non-empty itemName whose insert succeeds
\* answers 201 "success" with a non-empty item_id and appends exactly one
\* record: its itemName and itemDescription are the submitted ones, its
\* timestamp is the clock reading the request took, its id is the item_id
\* returned; and only a reachable store accepts the insert.
C1_InsertStep(t) ==
    /\ (pc[t] = "build" /\ Stepped(t)) => timestamp'[t] = clock
    /\ (pc[t] = "insert" /\ Stepped(t)) =>
          (store' # store <=> response'[t].code = 201)
    /\ (pc[t] = "insert" /\ Stepped(t) /\ store' # store) =>
          /\ storeUp
          /\ ~EmptyName(item_name[t])
          /\ response'[t].body.status = "success"
          /\ Len(response'[t].body.item_id) > 0
          /\ Len(store') = Len(store) + 1
          /\ SubSeq(store', 1, Len(store)) = store
          /\ Last(store').doc.itemName = item_name[t]
          /\ Last(store').doc.itemDescription = item_description[t]
          /\ Last(store').doc.timestamp = timestamp[t]
          /\ timestamp[t] \in 0..MaxClock
          /\ ObjectIdStr(Last(store').id) = response'[t].body.item_id
C1_SubmitSuccess == [][\A t \in Threads : C1_InsertStep(t)]_vars

\* C1 witness: "Buy milk" without a description was answered 201 and is the
\* newest record of the store.
C1_Witness ==
    \E t \in Threads :
        /\ pc[t] = "done"
        /\ response[t].code = 201
        /\ item_name[t] = "Buy milk"
        /\ item_description[t] = NoneVal
        /\ Len(store) > 0
        /\ Last(store).doc.itemName = "Buy milk"
        /\ Last(store).doc.itemDescription = NoneVal
        /\ response[t].body.item_id = ObjectIdStr(Last(store).id)

\* C2: a POST /submittodoitem whose itemName is absent or empty answers 400
\* "Item Name is required" in the step that receives it, whatever the store
\* and the client are, and leaves the store and the client as they were.
C2_RejectStep(t) ==
    (Stepped(t) /\ Idle(t) /\ EmptyName(item_name'[t])
        /\ response'[t] \notin GetResponses) =>
          /\ pc'[t] = "done"
          /\ response'[t] = Expect400
          /\ UNCHANGED shared
C2_NeverProceeds ==
    \A t \in Threads :
        (EmptyName(item_name[t]) /\ response[t] \notin GetResponses) =>
            (Idle(t) /\ response[t] \in {NoResponse, Expect400})
C2_EmptyNameRejected ==
    []C2_NeverProceeds /\ [][\A t \in Threads : C2_RejectStep(t)]_vars

\* C2 witness: an empty itemName was answered 400 while a client was cached
\* and the store held a record, both untouched.
C2_Witness ==
    \E t \in Threads :
        /\ pc[t] = "done"
        /\ item_name[t] = ""
        /\ response[t] = Expect400
        /\ client # NoHandle
        /\ Len(store) = 1

\* C3 (as claimed): a POST /submittodoitem with a non-empty itemName whose
\* creation of the client or ping of it fails while the store is unreachable
\* answers 500 "Failed to connect to database" and creates no record.
C3_ConnectStep(t) ==
    (Stepped(t) /\ pc[t] \in {"create", "ping"} /\ ~storeUp
        /\ pc'[t] = "done") =>
          /\ response'[t] = Expect500Connect
          /\ store' = store
C3_UnreachableStore == [][\A t \in SerialWorkers : C3_ConnectStep(t)]_vars

\* C4: every record of the store has a non-empty itemName and a timestamp
\* read from the server clock, identifiers are unique, and the store is
\* append-only: every step keeps the records it found, unchanged and in place.
C4_RecordsValid ==
    \A i \in 1..Len(store) :
        /\ ~EmptyName(store[i].doc.itemName)
        /\ store[i].doc.timestamp \in 0..MaxClock
        /\ \A j \in 1..Len(store) : store[i].id = store[j].id => i = j
C4_KeepsRecords ==
    /\ Len(store') >= Len(store)
    /\ SubSeq(store', 1, Len(store)) = store
C4_StoreAppendOnly == []C4_RecordsValid /\ [][C4_KeepsRecords]_vars

\* C4 witness: the store holds two records after GET and POST requests.
C4_Witness ==
    /\ Len(store) >= 2
    /\ \E t \in Threads : response[t] \in GetResponses

\* C5: with requests handled one at a time, once the client is created and
\* its ping has succeeded every later step keeps that client: no thread is at
\* the creation or the ping again, no client is constructed, and at most one
\* client is ever verified.
C5_NoReconnect ==
    /\ Cardinality(verified) <= 1
    /\ client \in verified =>
          \A t \in Threads : pc[t] \notin {"create", "ping"}
C5_KeepsClient ==
    client \in verified =>
        /\ client' = client
        /\ handlesCreated' = handlesCreated
        /\ verified' = verified
C5_ClientReused == []C5_NoReconnect /\ [][C5_KeepsClient]_vars

\* C5 witness: one client, verified, has served two successful submissions.
C5_Witness ==
    /\ handlesCreated = 1
    /\ client \in verified
    /\ Len(store) = 2

\* C6 (as claimed): whenever the ping made at client creation fails, the
\* client is None again when the request ends and the request reports failure.
PingFailureResponses ==
    {Expect500Connect, UnhandledResponse("OperationFailure")}
C6_PingFailureResets ==
    \A t \in SerialWorkers :
        (pc[t] = "done" /\ response[t] \in PingFailureResponses) =>
            client = NoHandle

\* C7 (as claimed): every POST /submittodoitem ends with one of the four JSON
\* outcomes; no failure leaves the handler unhandled.
JsonOutcomes ==
    {Expect400, Expect500Connect}
        \cup {SubmissionErrorResponse(e) :
                e \in InsertOutcomes(TRUE) \cup InsertOutcomes(FALSE)}
        \cup {SuccessResponse(i) : i \in 1..MaxItems}
C7_FourJsonOutcomes ==
    \A t \in Threads :
        (pc[t] = "done" /\ response[t] \notin GetResponses) =>
            response[t] \in JsonOutcomes

\* C8 (as claimed): any two records have distinct item_id texts and the later
\* one's timestamp is not smaller than the earlier one's.
C8_IdsDistinct ==
    \A i, j \in 1..Len(store) :
        i < j => ObjectIdStr(store[i].id) # ObjectIdStr(store[j].id)
C8_TimestampsSorted ==
    \A i, j \in 1..Len(store) :
        i < j => store[i].doc.timestamp <= store[j].doc.timestamp
C8_DistinctIdsSortedTimestamps == C8_IdsDistinct /\ C8_TimestampsSorted

\* C8 (amended): any two records have distinct item_id texts, and with
\* requests handled one at a time the later one's timestamp is not smaller
\* than the earlier one's as long as the wall clock has not been set back.
C8_DistinctIdsClockOrdered ==
    /\ C8_IdsDistinct
    /\ (~clockSetBack /\ ~overlapped) => C8_TimestampsSorted

\* C8 witness: two records, the later one with the later timestamp, on a
\* clock that only moved forward.
C8_Witness ==
    /\ Len(store) = 2
    /\ ~clockSetBack
    /\ store[1].doc.timestamp < store[2].doc.timestamp
    /\ ObjectIdStr(store[1].id) # ObjectIdStr(store[2].id)

\* C9: a thread is about to use the global client (ping it, or take the
\* collection from it) while it is None or assigned but never verified.
ClientMisused ==
    \E t \in Threads :
        \/ pc[t] = "ping" /\ client = NoHandle
        \/ pc[t] = "getdb" /\ client \notin verified
\* C9: as long as no request has overlapped another and creation and ping
\* have failed with nothing but ConnectionFailure, no thread uses the global
\* client while it is None or unverified (overlapping requests reach it).
C9_NoMisuseWhenSerial ==
    (~overlapped /\ ~foreignError) => ~ClientMisused

\* C9 witness: overlapping requests, no foreign error: a thread that passed
\* `client is None` on a client nobody had verified, skipping the ping, is
\* about to subscript the global after another request's failed ping reset it.
C9_Witness ==
    /\ overlapped
    /\ ~foreignError
    /\ verified = {}
    /\ handlesCreated > 0
    /\ client = NoHandle
    /\ \E t \in Threads : pc[t] = "getdb"

\* C10 (as claimed): with requests handled one at a time, between requests
\* the client is None or a client whose ping succeeded.
C10_VerifiedAtBoundary ==
    (~overlapped /\ \A t \in Threads : Idle(t)) =>
        (client = NoHandle \/ client \in verified)

====
